---- MODULE Spec2Model ----
(***************************************************************************)
(* Model of veracruz-vfs-bench: the two sweep drivers (bench.py,           *)
(* bench-block-sizes.py) and the three renderers (graph.py,                *)
(* graph-block-sizes.py, graph-relative-summary.py).                       *)
(*                                                                         *)
(* Four specifications share the module:                                   *)
(*   Spec        main() of the sweep drivers: rule selection, makefile     *)
(*               emission, the make batch, aggregation.                    *)
(*   SpecSessions  Spec, with a driver invoked again on the directories    *)
(*               the earlier invocation left.                              *)
(*   SpecRender  main() of the renderers: load, per-facet drawing, save.   *)
(*   SpecSizeSi  the pure formatter size_si.                               *)
(***************************************************************************)
EXTENDS Integers, Sequences, FiniteSets, TLC

VARIABLES
    \* ---- sweep drivers ----
    script,       \* which driver runs: "bench.py" or "bench-block-sizes.py"
    engine,       \* main()'s engine argument
    jobs,         \* main()'s jobs argument (make -j)
    sweep,        \* lengths of the mode / size / block-size lists and RUNS in use
    pc,           \* position of main()
    rule,         \* the selected makefile rule template
    loop,         \* indices of the nested emission loops
    targets,      \* the targets list
    mk,           \* rules written to target/bench.mk
    nextGoal,     \* make: index of the next goal to launch
    running,      \* make: goals whose recipe is running
    succeeded,    \* make: goals whose recipe exited 0
    failed,       \* make: goals whose recipe exited nonzero
    resultsDir,   \* files in target/results
    globbed,      \* result files opened by the aggregation loop
    resultsFile,  \* the file at results_path: whether written, and its content
    invocation,   \* how many times a driver has been invoked, this one included
    scratch,      \* the state held by target/scratch
    written,      \* make: goals whose workload has written its scratch state
    cleaning,     \* make: running goals at the `rm -rf target/scratch/*` line
    \* ---- renderers ----
    renderer,     \* which renderer runs
    argv,         \* the result files named on the command line, as stored
    gpc,          \* position of the renderer's main()
    result_map,   \* the loaded (label, sorted records) pairs
    baseline_results, \* graph-relative-summary.py: the baseline records, if set
    facet,        \* index of the next facet to draw
    unique_sizes, \* the local unique_sizes: whether bound, and its value
    plots,        \* the series drawn on the axes so far
    ticks,        \* the tick labels set on each finished axes
    title,        \* graph-relative-summary.py: the text above the axes
    raised,       \* the exception that ended main(), or None
    \* ---- size_si ----
    sx,           \* argument of size_si
    sout          \* result of size_si, or None

benchVars  == <<script, engine, jobs, sweep, pc, rule, loop, targets, mk,
                nextGoal, running, succeeded, failed, resultsDir, globbed,
                resultsFile, invocation, scratch, written, cleaning>>
renderVars == <<renderer, argv, gpc, result_map, baseline_results, facet,
                unique_sizes, plots, ticks, title, raised>>
siVars     == <<sx, sout>>
vars       == <<benchVars, renderVars, siVars>>

None    == "None"
\* a local variable that has not been assigned, and one that holds v
Unbound  == [bound |-> FALSE, value |-> <<>>]
Bound(v) == [bound |-> TRUE, value |-> v]
\* a file that has not been written
NoFile  == [written |-> FALSE, content |-> <<>>]

(***************************************************************************)
(* Bounds of the model.                                                    *)
(***************************************************************************)
\* RUNS is 5 in both drivers; the model sweeps 1..MaxRuns repetitions.
MaxRuns == 2
\* largest number of jobs in one batch.
MaxBatch == 6
\* largest value of the jobs argument.
MaxJobs == 2
\* largest number of driver invocations one after the other.
MaxInvocations == 2
\* largest number of files target/results holds when a driver is invoked
\* again, counting the files the new batch is going to write.
MaxFiles == 4
\* lengths of the prefixes of MODES and of SIZES / BLOCK_SIZES that are swept.
ModeCounts  == {1, 2}
ValueCounts == {1, 2}

(***************************************************************************)
(* Generic helpers.                                                        *)
(***************************************************************************)
Range(s) == {s[i] : i \in DOMAIN s}

RECURSIVE Perms(_)
\* every order in which the elements of the finite set S can be enumerated
Perms(S) ==
    IF S = {} THEN {<<>>}
    ELSE UNION {{<<x>> \o p : p \in Perms(S \ {x})} : x \in S}

\* Python's sorted(seq, key=lambda x: x[field]): stable, ascending.
RECURSIVE SortedBy(_, _)
InsertBy(sorted, x, field) ==
    LET n == Len(sorted)
        \* first position whose key is strictly greater than x's key
        Later == {i \in 1..n : sorted[i][field] > x[field]}
        p == IF Later = {} THEN n + 1
             ELSE CHOOSE i \in Later : \A j \in Later : i <= j
    IN  SubSeq(sorted, 1, p - 1) \o <<x>> \o SubSeq(sorted, p, n)

SortedBy(seq, field) ==
    IF seq = <<>> THEN <<>>
    ELSE InsertBy(SortedBy(SubSeq(seq, 1, Len(seq) - 1), field),
                  seq[Len(seq)], field)

NonDecreasing(seq, field) ==
    \A i \in 1..(Len(seq) - 1) : seq[i][field] <= seq[i + 1][field]

(***************************************************************************)
(* Sweep drivers: constants.                                               *)
(***************************************************************************)
BenchScripts == {"bench.py", "bench-block-sizes.py"}

MODES_bench ==
    << "write_inorder", "update_inorder", "read_inorder",
       "write_reversed", "update_reversed", "read_reversed",
       "write_random", "update_random", "read_random" >>

MODES_block ==
    << "write_inorder", "update_inorder", "read_inorder",
       "write_reversed", "update_reversed", "read_reversed",
       "write_random", "update_random", "read_random",
       "buffered_write_inorder", "buffered_update_inorder",
       "buffered_read_inorder", "buffered_write_reversed",
       "buffered_update_reversed", "buffered_read_reversed",
       "buffered_write_random", "buffered_update_random",
       "buffered_read_random" >>

\* SIZES = [2**x for x in range(10, 33+1, 3)], k-th element (1-based)
SIZES(k) == 2 ^ (10 + 3 * (k - 1))
BLOCK_SIZE == 512
\* SIZE = 2**26
SIZE == 67108864
\* BLOCK_SIZES = [2**x for x in range(2, 26+1, 2)], k-th element (1-based)
BLOCK_SIZES(k) == 2 ^ (2 + 2 * (k - 1))

\* the lists the emission loops of a driver iterate over, cut to the sweep
ModeAt(s, i)  == IF s = "bench.py" THEN MODES_bench[i] ELSE MODES_block[i]
SizeAt(s, i)  == IF s = "bench.py" THEN SIZES(i) ELSE SIZE
BlockAt(s, i) == IF s = "bench.py" THEN BLOCK_SIZE ELSE BLOCK_SIZES(i)

Sweeps(s) ==
    LET All == {[modes |-> m, sizes |-> IF s = "bench.py" THEN v ELSE 1,
                 blocks |-> IF s = "bench.py" THEN 1 ELSE v, runs |-> r] :
                   m \in ModeCounts, v \in ValueCounts, r \in 1..MaxRuns}
    IN  {w \in All : w.modes * w.sizes * w.blocks * w.runs <= MaxBatch}

\* "bench_%s_%s_%s_%s" % (mode, size, block_size, run)
TargetNoBlock(mode, size, block_size, run) ==
    "bench_" \o mode \o "_" \o ToString(size) \o "_" \o ToString(run)

Target(mode, size, block_size, run) ==
    "bench_" \o mode \o "_" \o ToString(size) \o "_" \o ToString(block_size)
        \o "_" \o ToString(run)

\* the rule templates: which engine the recipe invokes and whether the recipe
\* ends with `rm -rf target/scratch/*`
RuleFor(s, e) ==
    [name |-> IF e = "vc-fee" THEN "VC_FEE_RULE" ELSE "WASMTIME_RULE",
     command |-> e,
     cleans_scratch |-> (s = "bench-block-sizes.py")]

\* sp.check_call raises CalledProcessError iff the command's status is nonzero
CheckCallIgnoresStatus(status) == FALSE

CheckCallRaises(status) == status # 0

\* the key the aggregation step sorts by: x["size"] in both drivers
AggregateSortKey(s) == "size"

(***************************************************************************)
(* Sweep drivers: main().                                                  *)
(***************************************************************************)
Engines == {"vc-fee", "wasmtime", "qemu"}
\* the runtime a job of the batch measures
JobRuntimes == {1}

BenchIdle ==
    /\ script = None /\ engine = None /\ jobs = 0
    /\ sweep = [modes |-> 0, sizes |-> 0, blocks |-> 0, runs |-> 0]
    /\ pc = "idle" /\ rule = None
    /\ loop = [mode |-> 1, size |-> 1, block |-> 1, run |-> 0]
    /\ targets = <<>> /\ mk = <<>>
    /\ nextGoal = 1 /\ running = {} /\ succeeded = {} /\ failed = {}
    /\ resultsDir = {} /\ globbed = <<>> /\ resultsFile = NoFile
    /\ invocation = 0 /\ scratch = {} /\ written = {} /\ cleaning = {}

RenderIdle ==
    /\ renderer = None /\ argv = <<>> /\ gpc = "idle"
    /\ result_map = <<>> /\ baseline_results = Unbound /\ facet = 1
    /\ unique_sizes = Unbound /\ plots = <<>> /\ ticks = <<>>
    /\ title = None /\ raised = None

SiIdle == sx = 0 /\ sout = None

Init ==
    /\ script \in BenchScripts
    /\ engine \in Engines
    /\ jobs \in 1..MaxJobs
    /\ sweep \in Sweeps(script)
    /\ pc = "start"
    /\ rule = None
    /\ loop = [mode |-> 1, size |-> 1, block |-> 1, run |-> 0]
    /\ targets = <<>> /\ mk = <<>>
    /\ nextGoal = 1 /\ running = {} /\ succeeded = {} /\ failed = {}
    /\ resultsDir = {} /\ globbed = <<>> /\ resultsFile = NoFile
    /\ invocation = 1 /\ scratch = {} /\ written = {} /\ cleaning = {}
    /\ RenderIdle /\ SiIdle

\* lines 60-66 / 82-88: pick the rule template or return 1
SelectRule ==
    /\ pc = "start"
    /\ IF engine \in {"vc-fee", "wasmtime"}
       THEN /\ rule' = RuleFor(script, engine)
            /\ pc' = "emit"
       ELSE /\ rule' = rule
            /\ pc' = "return1"
    /\ UNCHANGED <<script, engine, jobs, sweep, loop, targets, mk, nextGoal,
                   running, succeeded, failed, resultsDir, globbed,
                   resultsFile, invocation, scratch, written,
                   cleaning, renderVars, siVars>>

\* the loop indices after one more innermost iteration (run is fastest,
\* then block_size, then size, then mode)
Advance(l) ==
    IF l.run + 1 < sweep.runs THEN [l EXCEPT !.run = l.run + 1]
    ELSE IF l.block < sweep.blocks
         THEN [l EXCEPT !.run = 0, !.block = l.block + 1]
    ELSE IF l.size < sweep.sizes
         THEN [l EXCEPT !.run = 0, !.block = 1, !.size = l.size + 1]
    ELSE [l EXCEPT !.run = 0, !.block = 1, !.size = 1, !.mode = l.mode + 1]

\* one iteration of the innermost emission loop: build the target, append it
\* to targets and write its rule to the makefile
EmitRule ==
    /\ pc = "emit"
    /\ loop.mode <= sweep.modes
    /\ LET mode == ModeAt(script, loop.mode)
           size == SizeAt(script, loop.size)
           block_size == BlockAt(script, loop.block)
           run == loop.run
           target == Target(mode, size, block_size, run)
       IN  /\ targets' = Append(targets, target)
           /\ mk' = Append(mk, [target |-> target, mode |-> mode,
                                size |-> size, block_size |-> block_size,
                                run |-> run, rule |-> rule])
    /\ loop' = Advance(loop)
    /\ UNCHANGED <<script, engine, jobs, sweep, pc, rule, nextGoal, running,
                   succeeded, failed, resultsDir, globbed, resultsFile,
                   invocation, scratch, written,
                   cleaning, renderVars, siVars>>

\* the loops are exhausted and the makefile is closed: check_call starts make
StartMake ==
    /\ pc = "emit"
    /\ loop.mode > sweep.modes
    /\ pc' = "make"
    /\ UNCHANGED <<script, engine, jobs, sweep, rule, loop, targets, mk,
                   nextGoal, running, succeeded, failed, resultsDir, globbed,
                   resultsFile, invocation, scratch, written,
                   cleaning, renderVars, siVars>>

\* make -jN launches the goals in command-line order, at most N at a time,
\* and launches nothing more once a recipe has failed
MakeLaunch ==
    /\ pc = "make"
    /\ failed = {}
    /\ nextGoal <= Len(targets)
    /\ Cardinality(running) < jobs
    /\ running' = running \cup {nextGoal}
    /\ nextGoal' = nextGoal + 1
    /\ UNCHANGED <<script, engine, jobs, sweep, pc, rule, loop, targets, mk,
                   succeeded, failed, resultsDir, globbed, resultsFile,
                   invocation, scratch, written,
                   cleaning, renderVars, siVars>>

\* the result file one invocation of the workload generator leaves in
\* target/results
ResultOf(j, rt) ==
    [file |-> mk[j].target,
     record |-> [name |-> mk[j].mode, size |-> mk[j].size,
                 block_size |-> mk[j].block_size, runtime |-> rt]]

\* the state the workload of goal j leaves in target/scratch (the recipe
\* passes `-o scratch` / `--mapdir /scratch::./scratch` to every job alike)
ScratchStateOf(j) == [owner |-> targets[j], batch |-> invocation]

\* target/results after the workload writes its result file: a file of the
\* same name is replaced
WriteResult(dir, r) == {f \in dir : f.file # r.file} \cup {r}

\* the workload of a running recipe writes its state into target/scratch
WorkloadWrites ==
    /\ pc = "make"
    /\ \E j \in (running \ cleaning) \ written :
        /\ scratch' = scratch \cup {ScratchStateOf(j)}
        /\ written' = written \cup {j}
    /\ UNCHANGED <<script, engine, jobs, sweep, pc, rule, loop, targets, mk,
                   nextGoal, running, succeeded, failed, resultsDir, globbed,
                   resultsFile, invocation, cleaning, renderVars, siVars>>

\* the workload of a running recipe exits with status 0 after writing its
\* result file; the recipe of bench.py is over, the recipe of
\* bench-block-sizes.py goes on to its `rm -rf target/scratch/*` line
JobSucceeds ==
    /\ pc = "make"
    /\ \E j \in running \ cleaning, rt \in JobRuntimes :
        /\ resultsDir' = WriteResult(resultsDir, ResultOf(j, rt))
        /\ IF rule.cleans_scratch
           THEN /\ cleaning' = cleaning \cup {j}
                /\ UNCHANGED <<running, succeeded>>
           ELSE /\ running' = running \ {j}
                /\ succeeded' = succeeded \cup {j}
                /\ UNCHANGED cleaning
    /\ UNCHANGED <<script, engine, jobs, sweep, pc, rule, loop, targets, mk,
                   nextGoal, failed, globbed, resultsFile, invocation,
                   scratch, written, renderVars, siVars>>

\* bench-block-sizes.py: the last line of a recipe, `rm -rf target/scratch/*`,
\* removes everything target/scratch holds and the recipe exits 0
CleanScratch ==
    /\ pc = "make"
    /\ \E j \in cleaning :
        /\ scratch' = {}
        /\ cleaning' = cleaning \ {j}
        /\ running' = running \ {j}
        /\ succeeded' = succeeded \cup {j}
    /\ UNCHANGED <<script, engine, jobs, sweep, pc, rule, loop, targets, mk,
                   nextGoal, failed, resultsDir, globbed, resultsFile,
                   invocation, written, renderVars, siVars>>

\* the workload of a running recipe exits nonzero; it may or may not have
\* written its result file; make runs no further line of the recipe
JobFails ==
    /\ pc = "make"
    /\ \E j \in running \ cleaning, wrote \in BOOLEAN, rt \in JobRuntimes :
        /\ running' = running \ {j}
        /\ failed' = failed \cup {j}
        /\ resultsDir' = IF wrote THEN WriteResult(resultsDir, ResultOf(j, rt))
                         ELSE resultsDir
    /\ UNCHANGED <<script, engine, jobs, sweep, pc, rule, loop, targets, mk,
                   nextGoal, succeeded, globbed, resultsFile, invocation,
                   scratch, written, cleaning, renderVars, siVars>>

\* make's exit status once nothing is running and nothing more is launched
MakeStatus == IF failed = {} THEN 0 ELSE 2

\* make exits; check_call returns or raises CalledProcessError
CheckCallReturns ==
    /\ pc = "make"
    /\ running = {}
    /\ failed # {} \/ nextGoal > Len(targets)
    /\ pc' = IF CheckCallRaises(MakeStatus) THEN "raised" ELSE "aggregate"
    /\ UNCHANGED <<script, engine, jobs, sweep, rule, loop, targets, mk,
                   nextGoal, running, succeeded, failed, resultsDir, globbed,
                   resultsFile, invocation, scratch, written,
                   cleaning, renderVars, siVars>>

\* lines 93-105 / 116-128: load every file glob enumerates, in the order glob
\* yields them, sort, dump to results_path
Aggregate ==
    /\ pc = "aggregate"
    /\ \E order \in Perms(resultsDir) :
        /\ globbed' = [i \in DOMAIN order |-> order[i].file]
        /\ resultsFile' =
             [written |-> TRUE,
              content |-> SortedBy([i \in DOMAIN order |-> order[i].record],
                                   AggregateSortKey(script))]
    /\ pc' = "done"
    /\ UNCHANGED <<script, engine, jobs, sweep, rule, loop, targets, mk,
                   nextGoal, running, succeeded, failed, resultsDir,
                   invocation, scratch, written,
                   cleaning, renderVars, siVars>>

Next ==
    \/ SelectRule
    \/ EmitRule
    \/ StartMake
    \/ MakeLaunch
    \/ WorkloadWrites
    \/ JobSucceeds
    \/ CleanScratch
    \/ JobFails
    \/ CheckCallReturns
    \/ Aggregate

Spec == Init /\ [][Next]_vars

\* the number of jobs a sweep makes
BatchSize(w) == w.modes * w.sizes * w.blocks * w.runs

\* a driver is invoked again after an invocation has ended (written
\* results_path, raised out of check_call, or returned 1): main() starts over
\* with fresh locals, while target/results, target/scratch and the file at
\* results_path are what the earlier invocations left
Reinvoke ==
    /\ pc \in {"done", "raised", "return1"}
    /\ invocation < MaxInvocations
    /\ \E nextScript \in BenchScripts, nextEngine \in Engines,
          nextJobs \in 1..MaxJobs :
        \E nextSweep \in Sweeps(nextScript) :
            /\ Cardinality(resultsDir) + BatchSize(nextSweep) <= MaxFiles
            /\ script' = nextScript /\ engine' = nextEngine
            /\ jobs' = nextJobs /\ sweep' = nextSweep
    /\ invocation' = invocation + 1
    /\ pc' = "start" /\ rule' = None
    /\ loop' = [mode |-> 1, size |-> 1, block |-> 1, run |-> 0]
    /\ targets' = <<>> /\ mk' = <<>>
    /\ nextGoal' = 1 /\ running' = {} /\ succeeded' = {} /\ failed' = {}
    /\ globbed' = <<>> /\ written' = {} /\ cleaning' = {}
    /\ UNCHANGED <<resultsDir, resultsFile, scratch, renderVars, siVars>>

NextSessions ==
    \/ Next
    \/ Reinvoke

SpecSessions == Init /\ [][NextSessions]_vars

(***************************************************************************)
(* Renderers: formatting helpers.                                          *)
(***************************************************************************)
\* largest argument of size_si the model formats
MaxSizeArg == 2050

Digit(d) == CASE d = 0 -> "0" [] d = 1 -> "1" [] d = 2 -> "2" [] d = 3 -> "3"
              [] d = 4 -> "4" [] d = 5 -> "5" [] d = 6 -> "6" [] d = 7 -> "7"
              [] d = 8 -> "8" [] d = 9 -> "9" [] d = 10 -> "a" [] d = 11 -> "b"
              [] d = 12 -> "c" [] d = 13 -> "d" [] d = 14 -> "e" [] d = 15 -> "f"

\* the digits of n >= 0 in the given base, most significant first, one
\* character per element
RECURSIVE Digits(_, _)
Digits(n, base) ==
    IF n < base THEN <<Digit(n)>>
    ELSE Append(Digits(n \div base, base), Digit(n % base))

\* ''.join(chars)
RECURSIVE Join(_)
Join(chars) == IF chars = <<>> THEN "" ELSE chars[1] \o Join(Tail(chars))

\* '%09x' % n  for n >= 0: lower-case hexadecimal, zero-padded to 9 places
Hex9(n) ==
    LET d == Digits(n, 16)
        pad == [i \in 1..(9 - Len(d)) |-> "0"]
    IN  Join(pad \o d)

\* int(s, 16) for a string produced by '%09x': the number it denotes
ParseHex9(s, candidates) == CHOOSE n \in candidates : Hex9(n) = s

\* SI base2 prefixes: (1024**e, si) for e = 0..8
SI2 ==
    << [exp |-> 0, si |-> ""],   [exp |-> 1, si |-> "Ki"],
       [exp |-> 2, si |-> "Mi"], [exp |-> 3, si |-> "Gi"],
       [exp |-> 4, si |-> "Ti"], [exp |-> 5, si |-> "Pi"],
       [exp |-> 6, si |-> "Ei"], [exp |-> 7, si |-> "Zi"],
       [exp |-> 8, si |-> "Yi"] >>

\* x >= 1024**e, for the arguments of the model (all below 2^31 < 1024**4)
AtLeastScale(x, e) == e <= 3 /\ x >= 1024 ^ e

\* the entry the loop `for scale, si in reversed(SI2)` returns at: the first
\* one, from the largest scale down, with x >= scale or scale == 1
SelectPrefix(x) ==
    LET Hits == {k \in DOMAIN SI2 : AtLeastScale(x, SI2[k].exp) \/ SI2[k].exp = 0}
    IN  SI2[CHOOSE k \in Hits : \A j \in Hits : j <= k]

\* '%.3f' % (x/scale): x/scale rounded to three decimals (ties to even; x and
\* scale are integers with x/scale exact in binary floating point), printed
\* as integer part, '.', three decimals
Fixed3(x, scale) ==
    LET q == (x * 1000) \div scale
        r == (x * 1000) % scale
        t == IF 2 * r > scale \/ (2 * r = scale /\ q % 2 = 1) THEN q + 1 ELSE q
        frac == t % 1000
    IN  Digits(t \div 1000, 10) \o <<".">> \o
        <<Digit(frac \div 100), Digit((frac \div 10) % 10), Digit(frac % 10)>>

\* s[:3]
Take3(chars) == SubSeq(chars, 1, IF Len(chars) < 3 THEN Len(chars) ELSE 3)

\* re.sub(r'\.0*$', '', s): drop a trailing '.' followed only by zeros
StripDotZeros(chars) ==
    LET M == {i \in DOMAIN chars :
                 chars[i] = "." /\ \A j \in (i + 1)..Len(chars) : chars[j] = "0"}
    IN  IF M = {} THEN chars
        ELSE SubSeq(chars, 1, (CHOOSE i \in M : \A j \in M : i <= j) - 1)

\* the number part of size_si(x) / throughput_si(x)
ShownNumber(x) ==
    StripDotZeros(Take3(Fixed3(x, 1024 ^ SelectPrefix(x).exp)))

\* size_si(x) == '%s %sB' % (number, si)
size_si(x) == Join(ShownNumber(x)) \o " " \o SelectPrefix(x).si \o "B"

(***************************************************************************)
(* Renderers: arithmetic on throughputs.  A throughput size/runtime is     *)
(* kept as the exact fraction [n, d] in lowest terms with d > 0.           *)
(***************************************************************************)
Abs(n) == IF n < 0 THEN -n ELSE n

RECURSIVE GCD(_, _)
GCD(a, b) == IF b = 0 THEN a ELSE GCD(b, a % b)

Rat(n, d) ==
    LET g == GCD(Abs(n), Abs(d))
        sgn == IF d < 0 THEN -1 ELSE 1
    IN  [n |-> (sgn * n) \div g, d |-> (sgn * d) \div g]

RatAdd(a, b) == Rat(a.n * b.d + b.n * a.d, a.d * b.d)
RatSub(a, b) == Rat(a.n * b.d - b.n * a.d, a.d * b.d)
RatDiv(a, b) == Rat(a.n * b.d, a.d * b.n)
RatLeq(a, b) == a.n * b.d <= b.n * a.d

\* min(ts), max(ts), sum(ts)/len(ts) for a non-empty list ts
RatMin(ts) == LET i == CHOOSE i \in DOMAIN ts :
                          \A j \in DOMAIN ts : RatLeq(ts[i], ts[j])
              IN  ts[i]
RatMax(ts) == LET i == CHOOSE i \in DOMAIN ts :
                          \A j \in DOMAIN ts : RatLeq(ts[j], ts[i])
              IN  ts[i]
RECURSIVE RatSum(_)
RatSum(ts) == IF ts = <<>> THEN Rat(0, 1)
              ELSE RatAdd(RatSum(SubSeq(ts, 1, Len(ts) - 1)), ts[Len(ts)])
RatMean(ts) == RatDiv(RatSum(ts), Rat(Len(ts), 1))

(***************************************************************************)
(* Renderers: constants.                                                   *)
(***************************************************************************)
Renderers == {"graph.py", "graph-block-sizes.py", "graph-relative-summary.py"}

\* index into result_map of the baseline (0-based in the source)
BaselineFirst == 1 - 1

BASELINE == 1

MODES == <<"read", "write", "update">>
ORDERS_graph == <<"inorder">>
ORDERS == <<"inorder", "reversed", "random">>
TYPES == << [name |-> "large-file", prefix |-> ""],
            [name |-> "incremental-file", prefix |-> "incremental_"] >>

\* graph.py: one axes per mode
GraphFacets == [x \in DOMAIN MODES |-> [mode |-> MODES[x]]]

\* graph-block-sizes.py: one axes per ((type, order), mode), rows from
\* it.product(TYPES, ORDERS), columns from MODES
BlockFacets ==
    [k \in 1..(Len(TYPES) * Len(ORDERS) * Len(MODES)) |->
        LET y == (k - 1) \div Len(MODES)
            x == (k - 1) % Len(MODES)
        IN  [type |-> TYPES[(y \div Len(ORDERS)) + 1],
             order |-> ORDERS[(y % Len(ORDERS)) + 1],
             mode |-> MODES[x + 1]]]

\* graph-relative-summary.py: the four (order, mode) pairs, on one axes
RelativeFacets ==
    << [order |-> "inorder", mode |-> "read"],
       [order |-> "inorder", mode |-> "write"],
       [order |-> "random", mode |-> "read"],
       [order |-> "random", mode |-> "write"] >>

NumFacets(g) ==
    CASE g = "graph.py" -> Len(GraphFacets)
      [] g = "graph-block-sizes.py" -> Len(BlockFacets)
      [] g = "graph-relative-summary.py" -> Len(RelativeFacets)

\* the field the loaded records are sorted and grouped by
KeyField(g) == IF g = "graph.py" THEN "size" ELSE "block_size"

\* '%s%s%s_%s' % (type_prefix, 'buffered_' if buffered else '', mode, order)
SeriesName(prefix, buffered, mode, order) ==
    prefix \o (IF buffered THEN "buffered_" ELSE "") \o mode \o "_" \o order

(***************************************************************************)
(* Renderers: one series.                                                  *)
(***************************************************************************)
\* [r for r in results if r['name'] == name]
Matching(results, name) == SelectSeq(results, LAMBDA r : r.name = name)

\* ['%09x' % r[key] for r in results if r['name'] == name]
SizesOf(results, name, key) ==
    LET m == Matching(results, name) IN [i \in DOMAIN m |-> Hex9(m[i][key])]

\* float(r['size']) / float(r['runtime']) raises ZeroDivisionError for some
\* matching record
ThroughputsRaise(results, name) ==
    \E r \in Range(Matching(results, name)) : r.runtime = 0

\* [float(r['size']) / float(r['runtime']) for r in results if ...]
ThroughputsOf(results, name) ==
    LET m == Matching(results, name)
    IN  [i \in DOMAIN m |-> Rat(m[i].size, m[i].runtime)]

Min2(a, b) == IF a < b THEN a ELSE b

\* zip(xs, ys)
Zip(xs, ys) == [i \in 1..Min2(Len(xs), Len(ys)) |-> <<xs[i], ys[i]>>]

\* the unique_sizes loop: first occurrences, in order
RECURSIVE UniqueOf(_)
UniqueOf(sizes) ==
    IF sizes = <<>> THEN <<>>
    ELSE LET u == UniqueOf(SubSeq(sizes, 1, Len(sizes) - 1))
             s == sizes[Len(sizes)]
         IN  IF s \in Range(u) THEN u ELSE Append(u, s)

\* [t for s_t, t in zip(sizes, values) if s_t == s]
GroupOf(sizes, values, s) ==
    LET z == SelectSeq(Zip(sizes, values), LAMBDA p : p[1] = s)
    IN  [i \in DOMAIN z |-> z[i][2]]

\* the points, the trend line and the band drawn for one series of the
\* e-th result set
Series(f, e, engine_label, name, sizes, values, style, label) ==
    LET u == UniqueOf(sizes)
    IN  [kind |-> "series", facet |-> f, e |-> e, engine |-> engine_label,
         name |-> name, xs |-> sizes, ys |-> values, unique |-> u,
         mins |-> [i \in DOMAIN u |-> RatMin(GroupOf(sizes, values, u[i]))],
         maxs |-> [i \in DOMAIN u |-> RatMax(GroupOf(sizes, values, u[i]))],
         avgs |-> [i \in DOMAIN u |-> RatMean(GroupOf(sizes, values, u[i]))],
         style |-> style, label |-> label]

\* the state the drawing loops thread through: the local unique_sizes, the
\* series drawn, the tick labels set, and the exception raised (None while
\* running)
Raise(st, exc) == [st EXCEPT !.raised = exc]
Drew(st, series) ==
    [st EXCEPT !.plots = Append(st.plots, series),
               !.unique_sizes = Bound(series.unique)]

\* the values of the key field present in the loaded records
LoadedKeys(rm, key) ==
    UNION {{r[key] : r \in Range(rm[i].results)} : i \in DOMAIN rm}

\* ax.set_xticklabels([size_si(int(s, 16)) for s in unique_sizes]) reads the
\* local unique_sizes: UnboundLocalError if no series has assigned it yet
SetTicks(st, keys) ==
    IF st.raised # None THEN st
    ELSE IF ~st.unique_sizes.bound THEN Raise(st, "UnboundLocalError")
    ELSE LET us == st.unique_sizes.value
         IN  [st EXCEPT !.ticks = Append(st.ticks,
                 [i \in DOMAIN us |-> size_si(ParseHex9(us[i], keys))])]

(***************************************************************************)
(* Renderers: inputs.                                                      *)
(***************************************************************************)
\* largest number of records in the result files of one invocation
MaxRecords == 4

\* the record names and measurements the result files are drawn from
InputNames(g) ==
    CASE g = "graph.py" -> {"read_inorder"}
      [] g = "graph-block-sizes.py" -> {"buffered_read_inorder", "read_inorder"}
      [] g = "graph-relative-summary.py" -> {"buffered_read_inorder"}

Measurements(g) ==
    CASE g = "graph.py" ->
            {[size |-> 4, block_size |-> 512, runtime |-> 1],
             [size |-> 4, block_size |-> 512, runtime |-> 2],
             [size |-> 16, block_size |-> 512, runtime |-> 1]}
      [] g = "graph-block-sizes.py" ->
            {[size |-> 8, block_size |-> 4, runtime |-> 1],
             [size |-> 8, block_size |-> 16, runtime |-> 2]}
      [] g = "graph-relative-summary.py" ->
            {[size |-> 8, block_size |-> 4, runtime |-> 1],
             [size |-> 8, block_size |-> 4, runtime |-> 2],
             [size |-> 8, block_size |-> 16, runtime |-> 1]}

\* a record whose runtime is 0
DegenerateRecords(g) ==
    CASE g = "graph.py" ->
            {[name |-> "read_inorder", size |-> 4, block_size |-> 512,
              runtime |-> 0]}
      [] g = "graph-block-sizes.py" ->
            {[name |-> "read_inorder", size |-> 8, block_size |-> 4,
              runtime |-> 0]}
      [] g = "graph-relative-summary.py" ->
            {[name |-> "buffered_read_inorder", size |-> 8, block_size |-> 4,
              runtime |-> 0]}

ResultRecords(g) ==
    {[name |-> n, size |-> m.size, block_size |-> m.block_size,
      runtime |-> m.runtime] : n \in InputNames(g), m \in Measurements(g)}
    \cup DegenerateRecords(g)

\* the lists of at most n records
Lists(R, n) == UNION {[1..k -> R] : k \in 0..n}

\* the command lines of a renderer: graph.py takes one results_path, the
\* other two any number of label=path pairs (here up to two)
ArgCounts(g) == IF g = "graph.py" THEN {1} ELSE {0, 1, 2}
Labels(g, i) ==
    IF i = 1 THEN {"a"}
    ELSE IF g = "graph-relative-summary.py" THEN {"a", "b"} ELSE {"b"}

Inputs(g) ==
    LET R == ResultRecords(g)
        One == {<<[label |-> l, records |-> f]>> :
                   l \in Labels(g, 1), f \in Lists(R, MaxRecords)}
        Two == UNION {{<<[label |-> l1, records |-> f1],
                         [label |-> l2, records |-> f2]>> :
                          l1 \in Labels(g, 1), l2 \in Labels(g, 2),
                          f1 \in [1..k -> R], f2 \in Lists(R, MaxRecords - k)} :
                      k \in 0..MaxRecords}
    IN  (IF 0 \in ArgCounts(g) THEN {<<>>} ELSE {})
        \cup (IF 1 \in ArgCounts(g) THEN One ELSE {})
        \cup (IF 2 \in ArgCounts(g) THEN Two ELSE {})

(***************************************************************************)
(* Renderers: the parts of main().                                         *)
(***************************************************************************)
\* parse results: every file loaded and sorted, paired with its label
LoadMap(g, args) ==
    [i \in DOMAIN args |->
        [name |-> args[i].label,
         results |-> SortedBy(args[i].records, KeyField(g))]]

\* `if i == BASELINE: baseline_results = results`
LoadBaseline(g, args) ==
    IF g = "graph-relative-summary.py" /\ Len(args) >= BASELINE + 1
    THEN Bound(LoadMap(g, args)[BASELINE + 1].results)
    ELSE Unbound

\* ---- graph.py, lines 81-136: one mode's axes ----
RECURSIVE DrawGraphOrders(_, _, _, _)
DrawGraphOrders(rm, st, f, i) ==
    IF i > Len(ORDERS_graph) \/ st.raised # None THEN st
    ELSE LET mode == GraphFacets[f].mode
             name == mode \o "_" \o ORDERS_graph[i]
             results == rm[1].results
             next ==
               IF ThroughputsRaise(results, name)
               THEN Raise(st, "ZeroDivisionError")
               ELSE Drew(st, Series(f, 1, rm[1].name, name,
                                    SizesOf(results, name, "size"),
                                    ThroughputsOf(results, name), "-", mode))
         IN  DrawGraphOrders(rm, next, f, i + 1)

DrawGraphAxes(rm, st, f) ==
    SetTicks(DrawGraphOrders(rm, st, f, 1), LoadedKeys(rm, "size"))

\* ---- graph-block-sizes.py, lines 95-160: one axes ----
\* lines 116-117: `elif not was_buffered: buffered = True`
KeepBuffered(buffered, was_buffered) == buffered

EffectiveBuffered(buffered, was_buffered) ==
    IF ~was_buffered THEN TRUE ELSE buffered

LineStyle(buffered) == IF buffered THEN "-" ELSE ":"
LegendLabel(label, buffered) ==
    label \o (IF buffered THEN "" ELSE " (no bufrw)")

BlockName(f, buffered) ==
    SeriesName(BlockFacets[f].type.prefix, buffered, BlockFacets[f].mode,
               BlockFacets[f].order)

\* the loop `for buffered in [True, False]` for the e-th result set; v = 1 is
\* the buffered pass, v = 2 the unbuffered one; was carries was_buffered
RECURSIVE DrawBlockVariants(_, _, _, _, _, _)
DrawBlockVariants(rm, st, f, e, v, was) ==
    IF v > 2 \/ st.raised # None THEN st
    ELSE LET buffered == (v = 1)
             name == BlockName(f, buffered)
             results == rm[e].results
             sizes == SizesOf(results, name, "block_size")
         IN  IF ThroughputsRaise(results, name)
             THEN Raise(st, "ZeroDivisionError")
             ELSE IF Len(sizes) = 0
             THEN DrawBlockVariants(rm, st, f, e, v + 1, FALSE)
             ELSE LET b == EffectiveBuffered(buffered, was)
                  IN  DrawBlockVariants(rm,
                        Drew(st, Series(f, e, rm[e].name, name, sizes,
                                        ThroughputsOf(results, name),
                                        LineStyle(b),
                                        LegendLabel(rm[e].name, b))),
                        f, e, v + 1, was)

\* the loop over result_map; was_buffered starts True for every result set
RECURSIVE DrawBlockEngines(_, _, _, _)
DrawBlockEngines(rm, st, f, e) ==
    IF e > Len(rm) \/ st.raised # None THEN st
    ELSE DrawBlockEngines(rm, DrawBlockVariants(rm, st, f, e, 1, TRUE),
                          f, e + 1)

DrawBlockAxes(rm, st, f) ==
    SetTicks(DrawBlockEngines(rm, st, f, 1), LoadedKeys(rm, "block_size"))

\* ---- graph-relative-summary.py, lines 109-172: one (order, mode) ----
RelativeName(f) ==
    SeriesName("", TRUE, RelativeFacets[f].mode, RelativeFacets[f].order)

\* [(t-bt)/bt for t, bt in zip(throughputs, baseline_throughputs)]
RelativeRaise(ts, bts) == \E p \in Range(Zip(ts, bts)) : p[2].n = 0

RelativeOf(ts, bts) ==
    LET z == Zip(ts, bts)
    IN  [i \in DOMAIN z |-> RatDiv(RatSub(z[i][1], z[i][2]), z[i][2])]

RECURSIVE DrawRelativeEngines(_, _, _, _, _)
DrawRelativeEngines(rm, base, st, f, e) ==
    IF e > Len(rm) \/ st.raised # None THEN st
    ELSE IF Len(rm) < BASELINE + 1
    THEN Raise(st, "IndexError")
    ELSE IF rm[e].name = rm[BASELINE + 1].name
    THEN DrawRelativeEngines(rm, base, st, f, e + 1)
    ELSE
      LET fc == RelativeFacets[f]
          name == RelativeName(f)
          results == rm[e].results
          sizes == SizesOf(results, name, "block_size")
          next ==
            IF ~base.bound THEN Raise(st, "TypeError")
            ELSE IF \/ ThroughputsRaise(results, name)
                    \/ ThroughputsRaise(base.value, name)
                    \/ RelativeRaise(ThroughputsOf(results, name),
                                     ThroughputsOf(base.value, name))
            THEN Raise(st, "ZeroDivisionError")
            ELSE IF Len(sizes) = 0 THEN st
            ELSE LET rel == RelativeOf(ThroughputsOf(results, name),
                                       ThroughputsOf(base.value, name))
                 IN  \* ax.plot(sizes, relative_throughputs, '.') rejects
                     \* x and y of different lengths
                     IF Len(rel) # Len(sizes) THEN Raise(st, "ValueError")
                     ELSE Drew(st, Series(f, e, rm[e].name, name, sizes,
                                          rel, "-",
                                          fc.mode \o " " \o fc.order))
      IN  DrawRelativeEngines(rm, base, next, f, e + 1)

\* the zero-reference line of graph-relative-summary.py, lines 174-178
ZeroLine(rm, us) ==
    [kind |-> "zero", facet |-> 0, e |-> 0,
     engine |-> rm[BASELINE + 1].name, name |-> "",
     xs |-> us, ys |-> [i \in DOMAIN us |-> Rat(0, 1)], unique |-> us,
     mins |-> <<>>, maxs |-> <<>>, avgs |-> <<>>,
     style |-> ":", label |-> rm[BASELINE + 1].name]

\* one pass of the facet loop of renderer g
DrawFacet(g, rm, base, st, f) ==
    CASE g = "graph.py" -> DrawGraphAxes(rm, st, f)
      [] g = "graph-block-sizes.py" -> DrawBlockAxes(rm, st, f)
      [] g = "graph-relative-summary.py" ->
            DrawRelativeEngines(rm, base, st, f, 1)

\* what follows the facet loop, up to savefig
AfterFacets(g, rm, st) ==
    IF g # "graph-relative-summary.py" \/ st.raised # None THEN st
    ELSE IF ~st.unique_sizes.bound THEN Raise(st, "UnboundLocalError")
    ELSE SetTicks([st EXCEPT !.plots =
                       Append(st.plots, ZeroLine(rm, st.unique_sizes.value))],
                  LoadedKeys(rm, "block_size"))

\* the figure set-up: graph-relative-summary.py reads result_map[0][0]
SetUpRaises(g, args) == g = "graph-relative-summary.py" /\ Len(args) = 0

StartState ==
    [unique_sizes |-> Unbound, plots |-> <<>>, ticks |-> <<>>, raised |-> None]

\* main() of renderer g on the files args, from load to savefig
RECURSIVE DrawFrom(_, _, _, _, _)
DrawFrom(g, rm, base, st, f) ==
    IF st.raised # None THEN st
    ELSE IF f > NumFacets(g) THEN AfterFacets(g, rm, st)
    ELSE DrawFrom(g, rm, base, DrawFacet(g, rm, base, st, f), f + 1)

RenderAll(g, args) ==
    IF SetUpRaises(g, args) THEN Raise(StartState, "IndexError")
    ELSE DrawFrom(g, LoadMap(g, args), LoadBaseline(g, args), StartState, 1)

(***************************************************************************)
(* Renderers: main() as steps.                                             *)
(***************************************************************************)
InitRender ==
    /\ renderer \in Renderers
    /\ argv \in Inputs(renderer)
    /\ gpc = "start"
    /\ result_map = <<>> /\ baseline_results = Unbound /\ facet = 1
    /\ unique_sizes = Unbound /\ plots = <<>> /\ ticks = <<>>
    /\ title = None /\ raised = None
    /\ BenchIdle /\ SiIdle

\* parse results, then set up the figure
Load ==
    /\ gpc = "start"
    /\ result_map' = LoadMap(renderer, argv)
    /\ baseline_results' = LoadBaseline(renderer, argv)
    /\ IF SetUpRaises(renderer, argv)
       THEN title' = None /\ raised' = "IndexError" /\ gpc' = "raised"
       ELSE /\ title' = IF renderer = "graph-relative-summary.py"
                        THEN argv[1].label ELSE None
            /\ raised' = None /\ gpc' = "draw"
    /\ UNCHANGED <<renderer, argv, facet, unique_sizes, plots, ticks,
                   benchVars, siVars>>

DrawState ==
    [unique_sizes |-> unique_sizes, plots |-> plots, ticks |-> ticks,
     raised |-> None]

\* the variables after a piece of main() has left the drawing state st
Drawn(st, to) ==
    /\ plots' = st.plots
    /\ unique_sizes' = st.unique_sizes
    /\ ticks' = st.ticks
    /\ raised' = st.raised
    /\ gpc' = IF st.raised = None THEN to ELSE "raised"
    /\ facet' = IF st.raised = None /\ to = "draw" THEN facet + 1 ELSE facet
    /\ UNCHANGED <<renderer, argv, result_map, baseline_results, title,
                   benchVars, siVars>>

DrawGraphFacet ==
    /\ gpc = "draw"
    /\ renderer = "graph.py"
    /\ facet <= NumFacets(renderer)
    /\ Drawn(DrawGraphAxes(result_map, DrawState, facet), "draw")

DrawBlockFacet ==
    /\ gpc = "draw"
    /\ renderer = "graph-block-sizes.py"
    /\ facet <= NumFacets(renderer)
    /\ Drawn(DrawBlockAxes(result_map, DrawState, facet), "draw")

DrawRelativeFacet ==
    /\ gpc = "draw"
    /\ renderer = "graph-relative-summary.py"
    /\ facet <= NumFacets(renderer)
    /\ Drawn(DrawRelativeEngines(result_map, baseline_results, DrawState,
                                 facet, 1), "draw")

\* after the facet loop: graph-relative-summary.py draws the zero line and
\* sets the tick labels from unique_sizes; every renderer then saves
Finish ==
    /\ gpc = "draw"
    /\ facet > NumFacets(renderer)
    /\ Drawn(AfterFacets(renderer, result_map, DrawState), "saved")

NextRender ==
    \/ Load
    \/ DrawGraphFacet
    \/ DrawBlockFacet
    \/ DrawRelativeFacet
    \/ Finish

SpecRender == InitRender /\ [][NextRender]_vars

(***************************************************************************)
(* Claims about the renderers.                                             *)
(***************************************************************************)
SeriesDrawn == {q \in Range(plots) : q.kind = "series"}
ZeroLines   == {q \in Range(plots) : q.kind = "zero"}

\* the (min, max, mean) drawn per result set, name and key value
StatsOf(ps) ==
    UNION {{[facet |-> q.facet, e |-> q.e, name |-> q.name,
             key |-> q.unique[i], min |-> q.mins[i], max |-> q.maxs[i],
             mean |-> q.avgs[i]] : i \in DOMAIN q.unique} :
           q \in {r \in Range(ps) : r.kind = "series"}}

\* the files args with the records of each file in any other order
PermutedLists(q) ==
    {[i \in DOMAIN q |-> q[f[i]]] : f \in Permutations(DOMAIN q)}

RECURSIVE PermutedInputs(_)
PermutedInputs(args) ==
    IF args = <<>> THEN {<<>>}
    ELSE LET last == args[Len(args)]
         IN  {Append(front, [label |-> last.label, records |-> recs]) :
                 front \in PermutedInputs(SubSeq(args, 1, Len(args) - 1)),
                 recs \in PermutedLists(last.records)}

\* C4: for every renderer, a run on the same files with the records of any
\* file permuted draws the same min, max and mean for every (name, key).
C4_OrderIndependent ==
    gpc = "saved" =>
        \A a \in PermutedInputs(argv) :
            LET r == RenderAll(renderer, a)
            IN  r.raised = None /\ StatsOf(r.plots) = StatsOf(plots)

BlockBuffered(q)   == q.name = BlockName(q.facet, TRUE)
BlockUnbuffered(q) == q.name = BlockName(q.facet, FALSE)
HasRecords(e, f, buffered) ==
    Matching(result_map[e].results, BlockName(f, buffered)) # <<>>
Solid(q)  == q.style = "-" /\ q.label = q.engine
Dotted(q) == q.style = ":" /\ q.label = q.engine \o " (no bufrw)"

KeyThroughputs(records, name, s) ==
    {Rat(r.size, r.runtime) :
        r \in {x \in Range(records) :
                  x.name = name /\ Hex9(x.block_size) = s /\ x.runtime # 0}}

\* C6: in graph-relative-summary.py every sample plotted at block size s for
\* name n is (t-b)/b for a comparand throughput t and a baseline throughput b
\* that both belong to key (n, s).
C6_RelativePerKey ==
    renderer = "graph-relative-summary.py" =>
        \A q \in SeriesDrawn : \A i \in DOMAIN q.xs :
            \E t \in KeyThroughputs(result_map[q.e].results, q.name, q.xs[i]),
               b \in KeyThroughputs(baseline_results.value, q.name, q.xs[i]) :
                /\ b.n # 0
                /\ q.ys[i] = RatDiv(RatSub(t, b), b)
                /\ t = b => q.ys[i] = Rat(0, 1)

RelativeLoaded ==
    renderer = "graph-relative-summary.py" /\ gpc # "start"

\* C7 as stated: for one or more label=path arguments the first result set is
\* the baseline: its records are the baseline records, its label names the
\* zero line, and it has no relative curve.
C7_FirstIsBaseline ==
    RelativeLoaded /\ Len(argv) >= 1 =>
        /\ raised # "IndexError"
        /\ baseline_results = Bound(LoadMap(renderer, argv)[1].results)
        /\ \A q \in ZeroLines : q.label = argv[1].label
        /\ \A q \in SeriesDrawn : q.e # 1

\* C7 as amended: for two or more arguments the second result set (index
\* BASELINE = 1) is the baseline: its records are the baseline records every
\* curve is computed against, its label names the zero line, and the result
\* sets carrying its label have no relative curve; the first label is the
\* title.  With fewer than two arguments main() raises before drawing.
C7_SecondIsBaseline ==
    RelativeLoaded =>
        IF Len(argv) >= 2
        THEN /\ raised # "IndexError"
             /\ title = argv[1].label
             /\ baseline_results =
                   Bound(SortedBy(argv[2].records, "block_size"))
             /\ \A q \in ZeroLines : q.label = argv[2].label
             /\ \A q \in SeriesDrawn :
                   /\ argv[q.e].label # argv[2].label
                   /\ q.ys = RelativeOf(
                        ThroughputsOf(SortedBy(argv[q.e].records, "block_size"),
                                      q.name),
                        ThroughputsOf(SortedBy(argv[2].records, "block_size"),
                                      q.name))
        ELSE /\ plots = <<>>
             /\ gpc # "saved"
             /\ gpc = "raised" => raised = "IndexError"
             /\ gpc = "draw" => facet = 1

C7_Witness ==
    /\ RelativeLoaded
    /\ gpc = "saved"
    /\ Len(argv) = 2
    /\ argv[1].records # argv[2].records
    /\ \E q \in SeriesDrawn : q.e = 1 /\ q.ys # <<Rat(0, 1)>>
    /\ \E q \in ZeroLines : q.label = argv[2].label /\ q.label # argv[1].label

\* no record of the files has runtime 0, and the command line has the files
\* the renderer indexes
WellFormedInput ==
    /\ \A i \in DOMAIN argv : \A r \in Range(argv[i].records) : r.runtime # 0
    /\ Len(argv) >= 1
    /\ renderer = "graph-relative-summary.py" => Len(argv) >= BASELINE + 1

\* C8: whatever keys have no records, main() does not raise.
C8_AbsentKeysNeverRaise ==
    WellFormedInput => raised = None

\* C9: a record whose runtime is 0 is never divided into a rate, so main()
\* does not end with ZeroDivisionError.
C9_ZeroRuntimeNotDivided ==
    raised # "ZeroDivisionError"

(***************************************************************************)
(* size_si on its own.                                                     *)
(***************************************************************************)
SizeArgs == (0..MaxSizeArg) \cup {k * 1024 : k \in 0..MaxSizeArg}

InitSizeSi ==
    /\ sx \in SizeArgs
    /\ sout = None
    /\ BenchIdle /\ RenderIdle

ApplySizeSi ==
    /\ sout = None
    /\ sout' = size_si(sx)
    /\ UNCHANGED <<sx, benchVars, renderVars>>

NextSizeSi == ApplySizeSi

SpecSizeSi == InitSizeSi /\ [][NextSizeSi]_vars

\* the printed number as an integer count of tenths, and whether a decimal
\* is shown
DigitValue(c) == CHOOSE d \in 0..9 : Digit(d) = c

RECURSIVE DecimalValue(_)
DecimalValue(chars) ==
    IF chars = <<>> THEN 0
    ELSE 10 * DecimalValue(SubSeq(chars, 1, Len(chars) - 1))
         + DigitValue(chars[Len(chars)])

HasDecimal(chars) == \E i \in DOMAIN chars : chars[i] = "."

ShownTenths(chars) ==
    IF HasDecimal(chars)
    THEN DecimalValue(SelectSeq(chars, LAMBDA c : c # "."))
    ELSE 10 * DecimalValue(chars)

\* C10: size_si(x) uses the largest prefix whose scale does not exceed x (none
\* below 1024), and the printed number times the scale differs from x by less
\* than one unit of the last printed digit; size_si(1024) = "1 KiB",
\* size_si(0) = "0 B", size_si(1536) = "1.5 KiB".
C10_SizeSi ==
    sout # None =>
        LET p == SelectPrefix(sx)
            scale == 1024 ^ p.exp
            shown == ShownNumber(sx)
            unit == IF HasDecimal(shown) THEN 1 ELSE 10
        IN  /\ sx < 1024 => p.si = ""
            /\ sx >= 1024 => scale <= sx /\ sx < 1024 * scale
            /\ sout = Join(shown) \o " " \o p.si \o "B"
            /\ Abs(ShownTenths(shown) * scale - 10 * sx) < unit * scale
            /\ sx = 1024 => sout = "1 KiB"
            /\ sx = 0 => sout = "0 B"
            /\ sx = 1536 => sout = "1.5 KiB"

\* the three formatted examples of the claim, on their own
C10_Examples ==
    sout # None =>
        /\ sx = 1024 => sout = "1 KiB"
        /\ sx = 0 => sout = "0 B"
        /\ sx = 1536 => sout = "1.5 KiB"

(***************************************************************************)
(* Claims about the sweep drivers.                                         *)
(***************************************************************************)
\* the sweep points the emission loops have to cover
SweepPoints ==
    {<<ModeAt(script, m), SizeAt(script, s), BlockAt(script, b), r>> :
        m \in 1..sweep.modes, s \in 1..sweep.sizes, b \in 1..sweep.blocks,
        r \in 0..(sweep.runs - 1)}

EmittedPoints ==
    {<<mk[i].mode, mk[i].size, mk[i].block_size, mk[i].run>> : i \in DOMAIN mk}

AfterEmission == pc \in {"make", "raised", "aggregate", "done"}

\* C1: once a job of the batch has exited nonzero, main() is either still
\* inside check_call or has ended with the exception, no result file has been
\* read and results_path has not been written; results_path is written only
\* when every job of the batch has exited 0.
C1_FailFast ==
    /\ failed # {} =>
          /\ pc \in {"make", "raised"}
          /\ globbed = <<>>
          /\ resultsFile = NoFile
    /\ pc = "raised" => failed # {}
    /\ resultsFile.written =>
          /\ failed = {} /\ running = {}
          /\ succeeded = DOMAIN targets

C1_Witness ==
    /\ pc = "raised"
    /\ failed # {} /\ succeeded # {}
    /\ resultsDir # {}
    /\ resultsFile = NoFile

\* C2: the emission loops write exactly |modes| x |sizes| x |block_sizes| x
\* repetitions rules, one per sweep point, and the target strings of
\* different sweep points are different.
C2_EmitterCountAndDistinct ==
    /\ Len(mk) = Len(targets)
    /\ \A i \in DOMAIN mk : mk[i].target = targets[i]
    /\ \A i, j \in DOMAIN targets : targets[i] = targets[j] => i = j
    /\ AfterEmission =>
          /\ Len(targets) = sweep.modes * sweep.sizes * sweep.blocks * sweep.runs
          /\ EmittedPoints = SweepPoints
          /\ Cardinality(Range(targets)) = Cardinality(SweepPoints)

C2_Witness ==
    /\ pc = "make"
    /\ sweep.modes > 1
    /\ sweep.sizes * sweep.blocks > 1
    /\ Len(targets) >= 4

\* C3: the array written to results_path is non-decreasing in the
\* independent variable of the sweep: size for bench.py, block_size for
\* bench-block-sizes.py.
IndependentVariable(s) == IF s = "bench.py" THEN "size" ELSE "block_size"

C3_SortedByIndependentVariable ==
    resultsFile.written =>
        NonDecreasing(resultsFile.content, IndependentVariable(script))

(***************************************************************************)
(* Scratch isolation.                                                      *)
(***************************************************************************)
\* the goals whose workload invocation is running
WorkloadRunning == running \ cleaning

\* what goal j itself has written into target/scratch so far
OwnState(j) == IF j \in written THEN {ScratchStateOf(j)} ELSE {}

\* C11: whenever the workload of a job is running, target/scratch holds
\* exactly the state that job has written so far: nothing left by an earlier
\* job or batch, nothing written by a concurrent job, and nothing of its own
\* removed by another job's `rm -rf target/scratch/*`.
C11_ScratchIsolation ==
    \A j \in WorkloadRunning : scratch = OwnState(j)

(***************************************************************************)
(* Aggregation across invocations.                                         *)
(***************************************************************************)
\* C12: a successful invocation writes to results_path exactly the records
\* of the result files its own batch produced, one per job: every file read
\* by the aggregation loop is the result file of a target of this batch, and
\* the output holds as many records as the batch has jobs.
C12_OnlyOwnBatchAggregated ==
    pc = "done" =>
        /\ Range(globbed) = Range(targets)
        /\ Len(globbed) = Len(targets)
        /\ Len(resultsFile.content) = Len(targets)

====
